---- MODULE Spec2Model ----
(***************************************************************************)
(* Model of internal/config/struct.go: the configuration store (Config),   *)
(* its handler list (RegisterHandler), the initial load (ReadConfigFile,   *)
(* parseConfig) and the monitoring goroutine started by ReadConfigFile.    *)
(*                                                                         *)
(* The monitoring goroutine is modelled statement by statement (pc), the   *)
(* callers of RegisterHandler as the two memory accesses of                *)
(* `c.handlers = append(c.handlers, handler)`, which no lock protects.     *)
(* The file system and the fsnotify watcher are the environment.           *)
(***************************************************************************)
EXTENDS Integers, Sequences, FiniteSets, TLC

\* ---------------------------------------------------------------- bounds

\* Writes to the watched file the environment performs after the load.
MaxWrites == 2
\* Events the watcher holds undelivered (the kernel queue behind watcher.Events).
MaxQueue == 2

\* --------------------------------------------------------------- documents

\* The fields of api.Config, in declaration order (the schema is external;
\* two scalar fields stand for it).
Fields == <<"a", "b">>

FieldNames == {Fields[i] : i \in 1..Len(Fields)}

\* Field values; 0 is the Go zero value of a field.
Vals == {0, 1}

\* A decoded document: the value conf.Config points to.
Docs == [FieldNames -> Vals]

\* The zero value of api.Config, what a fresh decode starts from.
ZeroDoc == [f \in FieldNames |-> 0]

\* What a YAML mapping says about one field: the key is absent, the key has
\* a value of the field's type, or the key has a value of another type.
Entries == {<<"absent", 0>>, <<"bad", 0>>} \cup {<<"val", v>> : v \in Vals}

\* The YAML mappings; the one without keys is `{}`.
Mappings == [FieldNames -> Entries]

EmptyMapping == [f \in FieldNames |-> <<"absent", 0>>]

\* The states of the watched path: no such file, a file that cannot be
\* read, bytes that are not YAML, or a YAML mapping.
FileStates ==
    {[kind |-> k, m |-> EmptyMapping] : k \in {"missing", "unreadable", "malformed"}}
        \cup {[kind |-> "yaml", m |-> m] : m \in Mappings}

\* yaml.Unmarshal's handling of one key of the mapping: a well-typed value is
\* stored in the field of `out`, anything else leaves the field as it is.
UnmarshalField(m, out, f) ==
    IF m[f][1] = "val" THEN [out EXCEPT ![f] = m[f][2]] ELSE out

\* yaml.Unmarshal(content, out) for a mapping, all keys decoded: keys present
\* and well typed overwrite the field, all other fields of out are kept.
Unmarshal(m, out) ==
    [f \in FieldNames |-> IF m[f][1] = "val" THEN m[f][2] ELSE out[f]]

\* The index of the first key at or after index i that the mapping holds,
\* Len(Fields) + 1 when there is none: yaml.Unmarshal visits the keys of the
\* content, not the fields of the struct.
RECURSIVE NextKey(_, _)
NextKey(m, i) ==
    IF i > Len(Fields) \/ m[Fields[i]][1] # "absent" THEN i ELSE NextKey(m, i + 1)

\* yaml.Unmarshal reports a *yaml.TypeError after decoding what it could.
TypeError(m) == \E f \in FieldNames : m[f][1] = "bad"

\* parseConfig's error for a file state: "" is nil.
ParseError(fs) ==
    CASE fs.kind \in {"missing", "unreadable"} -> "Failed to read file content"
      [] fs.kind = "malformed" -> "Failed to parse yaml"
      [] fs.kind = "yaml" /\ TypeError(fs.m) -> "Failed to parse yaml"
      [] OTHER -> ""

\* yaml.Marshal(conf.Config): the fields in declaration order, key then value.
RECURSIVE MarshalFrom(_, _)
MarshalFrom(d, i) ==
    IF i > Len(Fields) THEN <<>>
    ELSE <<Fields[i], d[Fields[i]]>> \o MarshalFrom(d, i + 1)

Marshal(d) == MarshalFrom(d, 1)

\* The file holds a document: parseConfig returns nil for it.
Valid(fs) == ParseError(fs) = ""

\* The file holds a document with at least one key.
HoldsKeys(fs) == Valid(fs) /\ NextKey(fs.m, 1) <= Len(Fields)

\* The document a decode of the file state into a fresh value gives.
DecodeFresh(fs) == Unmarshal(fs.m, ZeroDoc)

\* ------------------------------------------------------------------ paths

\* configPath, as its directory and its file name.
ConfigPath == <<"conf", "askgod.yaml">>

\* filepath.Dir(configPath): "." for a path without a directory.
FilepathDir(p) == IF p[1] = "" THEN "." ELSE p[1]

\* pathDir: filepath.Dir(configPath), "./" if that is empty.
PathDir(p) == IF FilepathDir(p) = "" THEN "./" ELSE FilepathDir(p)

\* pathBase: filepath.Base(configPath).

PathBase(p) == p[2]

\* fmt.Sprintf("%s/%s", dir, base); fsnotify names an event the same way,
\* the watched directory, a slash, the file's name.
Sprintf(dir, base) == <<dir, "/", base>>

\* The names of the files of the watched directory that produce events.
DirEntries == {PathBase(ConfigPath), "other.yaml"}

\* --------------------------------------------------------------- callers

\* The goroutines that call RegisterHandler.
Callers == {"g1", "g2"}

\* The handlers they register.
Handlers == {"h1", "h2"}

VARIABLES
    file,        \* the state of configPath on disk
    result,      \* ReadConfigFile's return: "none" before the call, "ok", or the error
    doc,         \* *conf.Config, the document of the store
    handlers,    \* conf.handlers
    watcher,     \* the fsnotify watcher: "none" or "open"
    monitoring,  \* the monitoring goroutine runs
    events,      \* watcher.Events, the names of the events not yet received
    pc,          \* the monitoring goroutine's position
    sleepLeft,   \* ticks of time.Sleep(time.Second) still to pass
    oldData,     \* the goroutine's oldData
    buf,         \* the content ioutil.ReadFile returned to parseConfig
    perr,        \* parseConfig's error in the cycle, "" for nil
    fi,          \* the index of the next field yaml.Unmarshal decodes
    rangeH,      \* the slice the range statement evaluated
    ri,          \* the index of the next handler of the range
    todo,        \* the handlers each caller has still to register, in its program order
    regpc,       \* each caller's position in RegisterHandler
    regloc,      \* the slice each caller read for its append
    writes,      \* writes performed so far
    now,         \* the clock, in ticks (it runs in the timed specification only)
    lastWriteAt, \* the clock at the last write
    lastGood,    \* history: the document of the last decode that returned nil
    invoked,     \* history: the handlers invoked so far in the cycle in progress
    notifs,      \* history: notification cycles begun since the last write
    reloads,     \* history: cycles that reached their re-decode since the last write
    returned,    \* history: the handlers whose RegisterHandler has returned
    lastEv,      \* history: the name of the event received last, <<>> once its cycle ended
    regAtRange,  \* history: the handlers whose RegisterHandler had returned when the
                 \* range statement of the cycle in progress evaluated conf.handlers
    midCycle,    \* history: the handlers whose RegisterHandler wrote conf.handlers
                 \* while a notification loop was running
    changing,    \* history: the last write found the goroutine waiting with nothing
                 \* queued and stored a valid document, with a key at least, other
                 \* than the one held
    alive,       \* the host process runs
    released,    \* the holder of the store has no more use for it
    failed,      \* history: the handlers whose invocation panicked
    slept        \* history: the ticks the time.Sleep of the cycle in progress has lasted

vars == <<file, result, doc, handlers, watcher, monitoring, events, pc,
          sleepLeft, oldData, buf, perr, fi, rangeH, ri, todo, regpc, regloc, writes,
          now, lastWriteAt, lastGood, invoked, notifs, reloads, returned, lastEv,
          regAtRange, midCycle, changing, alive, released, failed, slept>>

envVars == <<file, events, writes, now, lastWriteAt, changing>>

monVars == <<pc, sleepLeft, oldData, buf, perr, fi, rangeH, ri>>

regVars == <<todo, regpc, regloc, returned>>

histVars == <<lastGood, invoked, notifs, reloads, lastEv, regAtRange, midCycle>>

lifeVars == <<alive, released, failed>>

\* The state before ReadConfigFile is called, for the file states `files`
\* and the registrations `reg` the callers will make.
InitWith(files, reg) ==
    /\ file \in files
    /\ todo = reg
    /\ result = "none"
    /\ doc = ZeroDoc
    /\ handlers = <<>>
    /\ watcher = "none"
    /\ monitoring = FALSE
    /\ events = <<>>
    /\ pc = "select"
    /\ sleepLeft = 0
    /\ oldData = <<>>
    /\ buf = EmptyMapping
    /\ perr = ""
    /\ fi = 1
    /\ rangeH = <<>>
    /\ ri = 1
    /\ regpc = [c \in Callers |-> "idle"]
    /\ regloc = [c \in Callers |-> <<>>]
    /\ writes = 0
    /\ now = 0
    /\ lastWriteAt = 0
    /\ lastGood = ZeroDoc
    /\ invoked = <<>>
    /\ notifs = 0
    /\ reloads = 0
    /\ returned = {}
    /\ lastEv = <<>>
    /\ regAtRange = {}
    /\ midCycle = {}
    /\ changing = FALSE
    /\ alive = TRUE
    /\ released = FALSE
    /\ failed = {}
    /\ slept = 0

\* One caller registers one handler.
Init == InitWith(FileStates, [c \in Callers |-> IF c = "g1" THEN <<"h1">> ELSE <<>>])


\* ------------------------------------------------------------ the load

\* utils.PathExists(configPath).
PathExists(fs) == fs.kind # "missing"

\* The error ReadConfigFile returns ("" for nil), in the order the code tests:
\* the path, parseConfig, fsnotify.NewWatcher, watcher.Add.
LoadError(fs, monitor, newWatcherOK, addOK) ==
    CASE ~PathExists(fs) -> "The configuration file doesn't exist"
      [] PathExists(fs) /\ ParseError(fs) # "" -> ParseError(fs)
      [] PathExists(fs) /\ ParseError(fs) = "" /\ monitor /\ ~newWatcherOK ->
            "Unable to setup fsnotify"
      [] PathExists(fs) /\ ParseError(fs) = "" /\ monitor /\ newWatcherOK /\ ~addOK ->
            "Unable to setup fsnotify watch"
      [] OTHER -> ""

\* A goroutine started before the watcher is set up.
StartsMonitorEarly(fs, monitor, newWatcherOK, addOK) ==
    monitor /\ PathExists(fs) /\ ParseError(fs) = ""

\* A goroutine started whether or not monitoring was asked for.
StartsMonitorAlways(fs, monitor, newWatcherOK, addOK) ==
    LoadError(fs, monitor, newWatcherOK, addOK) = ""

\* The goroutine is started once every step before it has succeeded.
StartsMonitor(fs, monitor, newWatcherOK, addOK) ==
    monitor /\ LoadError(fs, monitor, newWatcherOK, addOK) = ""

\* ReadConfigFile(configPath, monitor, logger), up to its return. The watcher
\* NewWatcher returned is never closed, also when watcher.Add fails.
ReadConfigFile(monitor, newWatcherOK, addOK) ==
    /\ result = "none"
    /\ LET err == LoadError(file, monitor, newWatcherOK, addOK) IN
        /\ result' = IF err = "" THEN "ok" ELSE err
        /\ doc' = IF err = "" THEN DecodeFresh(file) ELSE doc
        /\ lastGood' = IF err = "" THEN DecodeFresh(file) ELSE lastGood
        /\ watcher' = IF PathExists(file) /\ ParseError(file) = "" /\ monitor /\ newWatcherOK
                      THEN "open" ELSE "none"
        /\ monitoring' = StartsMonitor(file, monitor, newWatcherOK, addOK)
    /\ UNCHANGED <<handlers, envVars, monVars, regVars, invoked, notifs, reloads,
                   lastEv, regAtRange, midCycle, lifeVars, slept>>

\* ------------------------------------------------------ RegisterHandler

\* c.handlers = append(c.handlers, handler): the read of c.handlers.
RegisterHandlerLoad(c) ==
    /\ result = "ok"
    /\ alive
    /\ regpc[c] = "idle"
    /\ todo[c] # <<>>
    /\ regloc' = [regloc EXCEPT ![c] = handlers]
    /\ regpc' = [regpc EXCEPT ![c] = "append"]
    /\ UNCHANGED <<doc, result, handlers, todo, returned, watcher, monitoring, envVars,
                   monVars, histVars, lifeVars, slept>>

\* The slice append returns for the slice read and the handler.
AppendHandler(read, h) == Append(read, h)

\* c.handlers = append(c.handlers, handler): the write of c.handlers, and
\* the return of nil.
RegisterHandlerStore(c) ==
    /\ alive
    /\ regpc[c] = "append"
    /\ handlers' = AppendHandler(regloc[c], Head(todo[c]))
    /\ todo' = [todo EXCEPT ![c] = Tail(todo[c])]
    /\ regpc' = [regpc EXCEPT ![c] = "idle"]
    /\ regloc' = [regloc EXCEPT ![c] = <<>>]
    /\ returned' = returned \cup {Head(todo[c])}
    /\ midCycle' = IF pc = "notify" THEN midCycle \cup {Head(todo[c])} ELSE midCycle
    /\ UNCHANGED <<doc, result, watcher, monitoring, envVars, monVars, lastGood, invoked,
                   notifs, reloads, lastEv, regAtRange, lifeVars, slept>>

\* ------------------------------------------------------ the environment

\* The name fsnotify gives the event of a file of the directory handed to
\* watcher.Add, filepath.Dir(configPath).
EventName(name) == Sprintf(FilepathDir(ConfigPath), name)

RECURSIVE Repeat(_, _)
Repeat(x, n) == IF n = 0 THEN <<>> ELSE <<x>> \o Repeat(x, n - 1)

\* Some process replaces the watched file's state (a write, a truncation, a
\* removal, a rewrite of the same content); the watcher queues n events for it.
WriteFile(fs, n) ==
    /\ result = "ok"
    /\ alive
    /\ file' = fs
    /\ writes' = writes + 1
    /\ lastWriteAt' = now
    /\ changing' = (pc = "select" /\ events = <<>> /\ HoldsKeys(fs) /\ DecodeFresh(fs) # doc)
    /\ notifs' = 0
    /\ reloads' = 0
    /\ IF monitoring
       THEN /\ Len(events) + n <= MaxQueue
            /\ events' = events \o Repeat(EventName(PathBase(ConfigPath)), n)
       ELSE /\ n = 1
            /\ events' = events
    /\ UNCHANGED <<result, doc, handlers, watcher, monitoring, now, monVars, regVars,
                   lastGood, invoked, lastEv, regAtRange, midCycle, lifeVars, slept>>

\* Some process touches another file of the watched directory.
SiblingEvent(name) ==
    /\ monitoring
    /\ name # PathBase(ConfigPath)
    /\ Len(events) < MaxQueue
    /\ events' = Append(events, EventName(name))
    /\ UNCHANGED <<file, result, doc, handlers, watcher, monitoring, writes, now,
                   lastWriteAt, changing, monVars, regVars, histVars, lifeVars, slept>>


\* ------------------------------------------------- the monitoring goroutine

\* A goroutine per event: an event is received whatever the cycle before it
\* is doing.
SelectingAnytime(p) == p \in {"select", "sleep", "unmarshal", "compare", "notify"}

\* The goroutine is at the select statement of its for loop: the one place
\* where it receives from watcher.Events and watcher.Errors.
Selecting(p) == p = "select"

\* No sleep at all.
SleepTicksNone == 0 \div 200

\* A sleep of 200ms.
SleepTicksShort == 200 \div 200

\* time.Second, in ticks of 200ms.
SleepTicks == 1000 \div 200

\* The path the goroutine compares an event's name with.
WatchedName == Sprintf(PathDir(ConfigPath), PathBase(ConfigPath))

\* A filter that compares the directory only.
AcceptedDir(ev) == ev[1] = WatchedName[1]

\* The filter: `ev.Name != fmt.Sprintf("%s/%s", pathDir, pathBase)` continues.
Accepted(ev) == ev = WatchedName

\* case ev := <-watcher.Events: the filter, then oldData and the call of
\* time.Sleep for an accepted event.
RecvEvent ==
    /\ monitoring
    /\ Selecting(pc)
    /\ events # <<>>
    /\ events' = Tail(events)
    /\ lastEv' = Head(events)
    /\ IF Accepted(Head(events))
       THEN /\ oldData' = Marshal(doc)
            /\ pc' = "sleep"
            /\ sleepLeft' = SleepTicks
            /\ invoked' = <<>>
            /\ slept' = 0
       ELSE UNCHANGED <<oldData, pc, sleepLeft, invoked, slept>>
    /\ UNCHANGED regAtRange
    /\ UNCHANGED <<file, result, doc, handlers, watcher, monitoring, writes, now,
                   lastWriteAt, changing, buf, perr, fi, rangeH, ri,
                   regVars, lastGood, notifs, reloads, midCycle, lifeVars>>

\* What the goroutine received last was an error of the watcher.
ErrorMark == <<"error">>

\* An error case that returns from the goroutine.
AfterErrorReturn == "exit"

\* The error case ends with the logger's call: the for statement selects again.
AfterError == "select"

\* case err := <-watcher.Errors: the watcher hands an error over (the
\* channel has no buffer), the goroutine logs it and selects again.
RecvError ==
    /\ monitoring
    /\ Selecting(pc)
    /\ pc' = AfterError
    /\ lastEv' = ErrorMark
    /\ UNCHANGED <<file, result, doc, handlers, watcher, monitoring, envVars, sleepLeft,
                   oldData, buf, perr, fi, rangeH, ri, regVars, lastGood, invoked, notifs,
                   reloads, regAtRange, midCycle, lifeVars, slept>>

\* The second of time.Sleep passes (the clock is not read).
Elapse ==
    /\ pc = "sleep"
    /\ sleepLeft > 0
    /\ sleepLeft' = 0
    /\ slept' = slept + sleepLeft
    /\ UNCHANGED <<file, result, doc, handlers, watcher, monitoring, envVars, pc, oldData,
                   buf, perr, fi, rangeH, ri, regVars, histVars, lifeVars>>

\* time.Sleep returns; parseConfig(configPath, conf.Config) reads the file
\* and yaml.Unmarshal parses the bytes. A read error, bytes that are not
\* YAML or a mapping without keys end parseConfig before anything is decoded.
ReadFile ==
    /\ monitoring
    /\ pc = "sleep"
    /\ sleepLeft = 0
    /\ reloads' = reloads + 1
    /\ IF file.kind = "yaml" /\ NextKey(file.m, 1) <= Len(Fields)
       THEN /\ buf' = file.m
            /\ fi' = NextKey(file.m, 1)
            /\ pc' = "unmarshal"
            /\ UNCHANGED <<perr, lastGood>>
       ELSE /\ pc' = "compare"
            /\ perr' = ParseError(file)
            /\ lastGood' = IF ParseError(file) = "" THEN doc ELSE lastGood
            /\ buf' = IF file.kind = "yaml" THEN file.m ELSE buf
            /\ UNCHANGED fi
    /\ UNCHANGED <<file, result, doc, handlers, watcher, monitoring, envVars, sleepLeft,
                   oldData, rangeH, ri, regVars, invoked, notifs, lastEv, regAtRange,
                   midCycle, lifeVars, slept>>

\* yaml.Unmarshal(content, conf.Config) decodes the next field into the
\* document the store holds; after the last one parseConfig returns.
UnmarshalStep ==
    /\ monitoring
    /\ pc = "unmarshal"
    /\ doc' = UnmarshalField(buf, doc, Fields[fi])
    /\ IF NextKey(buf, fi + 1) <= Len(Fields)
       THEN /\ fi' = NextKey(buf, fi + 1)
            /\ UNCHANGED <<pc, perr, lastGood>>
       ELSE /\ pc' = "compare"
            /\ perr' = IF TypeError(buf) THEN "Failed to parse yaml" ELSE ""
            /\ lastGood' = IF TypeError(buf) THEN lastGood ELSE doc'
            /\ UNCHANGED fi
    /\ UNCHANGED <<file, result, handlers, watcher, monitoring, envVars, sleepLeft, oldData,
                   buf, rangeH, ri, regVars, invoked, notifs, reloads, lastEv,
                   regAtRange, midCycle, lifeVars, slept>>

\* A comparison that finds every cycle's data changed.
ChangedAlways(old, d) == TRUE

\* `string(oldData) == string(newData)` is false.
Changed(old, d) == old # Marshal(d)

\* The error of parseConfig is logged and the cycle goes on: newData is
\* compared with oldData, and the range statement evaluates conf.handlers.
Compare ==
    /\ monitoring
    /\ pc = "compare"
    /\ IF Changed(oldData, doc)
       THEN /\ pc' = "notify"
            /\ rangeH' = handlers
            /\ ri' = 1
            /\ notifs' = notifs + 1
            /\ regAtRange' = returned
            /\ UNCHANGED <<oldData, buf, perr, fi, lastEv, slept>>
       ELSE /\ pc' = "select"
            /\ oldData' = <<>>
            /\ buf' = EmptyMapping
            /\ perr' = ""
            /\ fi' = 1
            /\ lastEv' = <<>>
            /\ slept' = 0
            /\ UNCHANGED <<rangeH, ri, notifs, regAtRange>>
    /\ UNCHANGED <<file, result, doc, handlers, watcher, monitoring, envVars, sleepLeft,
                   regVars, lastGood, invoked, reloads, midCycle, lifeVars>>

\* for _, handler := range conf.handlers { handler(&conf) }: one iteration,
\* or the end of the loop.
Notify ==
    /\ monitoring
    /\ pc = "notify"
    /\ IF ri <= Len(rangeH)
       THEN /\ invoked' = Append(invoked, rangeH[ri])
            /\ ri' = ri + 1
            /\ UNCHANGED <<pc, rangeH, oldData, buf, perr, fi, lastEv, regAtRange, slept>>
       ELSE /\ pc' = "select"
            /\ lastEv' = <<>>
            /\ invoked' = <<>>
            /\ regAtRange' = {}
            /\ rangeH' = <<>>
            /\ ri' = 1
            /\ oldData' = <<>>
            /\ buf' = EmptyMapping
            /\ perr' = ""
            /\ fi' = 1
            /\ slept' = 0
    /\ UNCHANGED <<file, result, doc, handlers, watcher, monitoring, envVars, sleepLeft,
                   regVars, lastGood, notifs, reloads, midCycle, lifeVars>>

\* handler(&conf) panics: the goroutine has no recover, so the panic ends the
\* host process, the goroutine and the callers with it.
HandlerPanic ==
    /\ monitoring
    /\ pc = "notify"
    /\ ri <= Len(rangeH)
    /\ invoked' = Append(invoked, rangeH[ri])
    /\ failed' = failed \cup {rangeH[ri]}
    /\ pc' = "panic"
    /\ monitoring' = FALSE
    /\ alive' = FALSE
    /\ UNCHANGED <<file, result, doc, handlers, watcher, envVars, sleepLeft, oldData, buf,
                   perr, fi, rangeH, ri, regVars, lastGood, notifs, reloads, lastEv,
                   regAtRange, midCycle, released, slept>>

\* The holder of the store has no more use for it. ReadConfigFile returns
\* the store only, whose one method is RegisterHandler: the holder has
\* nothing to call, the watcher stays open and the goroutine goes on.
Release ==
    /\ result = "ok"
    /\ alive
    /\ ~released
    /\ released' = TRUE
    /\ UNCHANGED <<file, result, doc, handlers, watcher, monitoring, envVars, monVars,
                   regVars, histVars, alive, failed, slept>>

Monitor == RecvEvent \/ RecvError \/ ReadFile \/ UnmarshalStep \/ Compare \/ Notify

\* ------------------------------------------------------ specifications

Load == \E monitor, newWatcherOK, addOK \in BOOLEAN : ReadConfigFile(monitor, newWatcherOK, addOK)

Register == \E c \in Callers : RegisterHandlerLoad(c) \/ RegisterHandlerStore(c)

Write == writes < MaxWrites /\ \E fs \in FileStates, n \in 1..MaxQueue : WriteFile(fs, n)

Sibling == \E name \in DirEntries : SiblingEvent(name)

Next ==
    \/ Load
    \/ Register
    \/ Write
    \/ Sibling
    \/ Elapse
    \/ Monitor
    \/ HandlerPanic

Spec == Init /\ [][Next]_vars

\* Two callers register one handler each, concurrently, and the file only
\* ever holds complete documents.
CompleteFiles == {fs \in FileStates : fs.kind = "yaml" /\ \A f \in FieldNames : fs.m[f][1] = "val"}

ConcInit == InitWith(CompleteFiles, [c \in Callers |-> IF c = "g1" THEN <<"h1">> ELSE <<"h2">>])

ConcWrite == writes < MaxWrites /\ \E fs \in CompleteFiles, n \in 1..MaxQueue : WriteFile(fs, n)

ConcNext ==
    \/ Load
    \/ Register
    \/ ConcWrite
    \/ Elapse
    \/ Monitor
    \/ HandlerPanic
    \/ Release

ConcSpec == ConcInit /\ [][ConcNext]_vars

\* The timed scenario: the clock runs, and up to three writes follow each
\* other within 200ms.
Horizon == 12

GapTicks == 200 \div 200

\* A tick of 200ms passes.
Tick ==
    /\ now < Horizon
    /\ now' = now + 1
    /\ sleepLeft' = IF sleepLeft > 0 THEN sleepLeft - 1 ELSE sleepLeft
    /\ slept' = IF sleepLeft > 0 THEN slept + 1 ELSE slept
    /\ UNCHANGED <<file, result, doc, handlers, watcher, monitoring, events, writes,
                   lastWriteAt, changing, pc, oldData, buf, perr, fi, rangeH, ri, regVars,
                   histVars, lifeVars>>

TimedWrite ==
    /\ writes < 3
    /\ writes > 0 => now - lastWriteAt <= GapTicks
    /\ \E fs \in FileStates, n \in 1..MaxQueue : WriteFile(fs, n)

TimedNext ==
    \/ Load
    \/ TimedWrite
    \/ Tick
    \/ Monitor

TimedSpec == Init /\ [][TimedNext]_vars


\* ------------------------------------------------------------- the claims

\* The number of times h occurs in the sequence.
Count(h, seq) == Cardinality({i \in 1..Len(seq) : seq[i] = h})

\* A cycle is past its re-decode.
Decoded == pc \in {"compare", "notify"}

\* The goroutine waits in select and no event is queued.
Quiescent == monitoring /\ pc = "select" /\ events = <<>>

\* C1. Bad-edit resilience: in a reload cycle whose re-decode failed (read
\* error or malformed content) the document is the one held before the cycle,
\* the last good one, and no handler is invoked.
C1_BadEditResilience ==
    (Decoded /\ perr # "") =>
        /\ Marshal(doc) = oldData
        /\ doc = lastGood
        /\ pc # "notify"

\* C2. Atomic swap: in every state, those in the middle of a reload cycle
\* included, the document a reader finds in the store is the one loaded
\* first or the complete result of a later decode (the last one that
\* succeeded, or the whole of the one in progress), never a mix of the old
\* and the new version.
C2_AtomicSwap ==
    result = "ok" =>
        \/ doc = lastGood
        \/ pc = "unmarshal" /\ doc = Unmarshal(buf, lastGood)

\* C3. Change propagation: one write of a valid document other than the one
\* held, made while the goroutine waits, gives exactly one notification cycle
\* however many events the write produces, and a notification cycle invokes
\* every handler registered at its start exactly once, in registration order.
C3_ChangePropagation ==
    /\ (Quiescent /\ changing) => notifs = 1
    /\ (pc = "notify" /\ ri > Len(rangeH)) =>
            /\ invoked = rangeH
            /\ \A h \in regAtRange : Count(h, invoked) = 1

\* C4. New content, not a merge: whenever handlers are being invoked the
\* store holds the decode of the content the cycle read into a fresh value;
\* no field value of the document held before survives that the content
\* does not give.
C4_NewContentNotMerge ==
    pc = "notify" => (perr = "" /\ doc = Unmarshal(buf, ZeroDoc))

\* C5. No-op stability: in a reload cycle whose content decodes to a document
\* with the encoding of the document held, the document stays as it is and
\* no handler is invoked.
C5_NoOpStability ==
    (pc \in {"unmarshal", "compare", "notify"} /\ perr = "" /\ ~TypeError(buf)
        /\ Marshal(Unmarshal(buf, ZeroDoc)) = oldData) =>
        /\ Marshal(doc) = oldData
        /\ pc # "notify"

\* A cycle has re-decoded a rewrite of the content the document came from,
\* with a handler registered.
C5_Witness ==
    /\ pc = "compare"
    /\ perr = ""
    /\ ~TypeError(buf)
    /\ NextKey(buf, 1) <= Len(Fields)
    /\ doc # ZeroDoc
    /\ Marshal(Unmarshal(buf, ZeroDoc)) = oldData
    /\ handlers # <<>>


\* C6. Concurrent registration safety: a handler registered while a
\* notification loop runs is not invoked in that cycle, and every later
\* notification cycle invokes it exactly once.
C6_ConcurrentRegistration ==
    pc = "notify" =>
        /\ \A h \in Handlers \ regAtRange : Count(h, invoked) = 0
        /\ ri > Len(rangeH) => \A h \in midCycle \cap regAtRange : Count(h, invoked) = 1

\* C7. Event filtering: receiving an event starts a reload cycle if and only
\* if the event names the watched file, and the event of a sibling file
\* changes neither the document nor the goroutine's position and invokes no
\* handler.
C7_EventFiltering ==
    [][(events # <<>> /\ events' = Tail(events)) =>
            /\ (pc' = "sleep") <=> (Head(events) = EventName(PathBase(ConfigPath)))
            /\ Head(events) # EventName(PathBase(ConfigPath)) =>
                    UNCHANGED <<doc, pc, invoked, rangeH, oldData, notifs, reloads>>]_vars

\* The goroutine has received the event of a sibling file and waits again,
\* with a handler registered.
C7_Witness ==
    /\ monitoring
    /\ pc = "select"
    /\ lastEv = EventName("other.yaml")
    /\ handlers # <<>>

\* C8. Load failure: ReadConfigFile fails for a path that does not exist,
\* for a read that fails and for malformed bytes, each with its own error,
\* and whenever it fails (the watcher that cannot be set up included) the
\* caller has no store and no monitoring goroutine runs.
C8_LoadFailure ==
    /\ (result # "none" /\ writes = 0) =>
            /\ file.kind = "missing" <=> result = "The configuration file doesn't exist"
            /\ file.kind = "unreadable" <=> result = "Failed to read file content"
            /\ (file.kind = "malformed" \/ (file.kind = "yaml" /\ TypeError(file.m)))
                    <=> result = "Failed to parse yaml"
    /\ result \notin {"none", "ok"} =>
            /\ ~monitoring
            /\ doc = ZeroDoc
            /\ handlers = <<>>
            /\ \A c \in Callers : regpc[c] = "idle"
            /\ writes = 0

\* ReadConfigFile has failed on watcher.Add, after the file was parsed.
C8_Witness ==
    /\ result = "Unable to setup fsnotify watch"
    /\ Valid(file)
    /\ ~monitoring

\* C9. Synchronization: once the goroutine has handled every event and waits,
\* a valid document in the file (one with a key at least) is the document of
\* the store.
C9_Convergence ==
    (Quiescent /\ HoldsKeys(file)) => doc = DecodeFresh(file)

\* The 1.2 seconds of the scenario, in ticks.
WindowTicks == 1200 \div 200

\* C10. Debounce timing: with three writes within 200ms of each other, the
\* first one made while the goroutine waits, no reload cycle reaches its
\* re-decode between the writes and at most one does in the 1.2 seconds
\* after the third.
C10_DebounceTiming ==
    /\ (writes \in {1, 2} /\ now <= lastWriteAt + GapTicks) => reloads = 0
    /\ (writes = 3 /\ now <= lastWriteAt + WindowTicks) => reloads <= 1

\* 1.2 seconds after the third write one cycle has reached its re-decode.
C10_Witness ==
    /\ writes = 3
    /\ now = lastWriteAt + WindowTicks
    /\ reloads = 1

\* The step receives an error of the watcher.
ErrorReceived == lastEv' = ErrorMark /\ lastEv # ErrorMark

\* The step receives an event of the watcher.
EventReceived == events # <<>> /\ events' = Tail(events)

\* C11. Subscription errors are non-fatal: the step that receives an error of
\* the watcher changes neither the document nor the handler list and invokes
\* no handler, the goroutine runs after it and waits in select, and the next
\* event it receives for the watched file begins a reload cycle.
C11_SubscriptionErrorNonFatal ==
    [][/\ ErrorReceived =>
            /\ UNCHANGED <<doc, handlers, invoked, notifs, reloads>>
            /\ monitoring'
            /\ pc' = "select"
       /\ (lastEv = ErrorMark /\ EventReceived /\ Head(events) = EventName(PathBase(ConfigPath))) =>
            /\ pc' = "sleep"
            /\ oldData' = Marshal(doc)]_vars

\* An error has been received, and an event of the changed file is queued
\* behind it, with a handler registered.
C11_Witness ==
    /\ monitoring
    /\ lastEv = ErrorMark
    /\ events # <<>>
    /\ Head(events) = EventName(PathBase(ConfigPath))
    /\ DecodeFresh(file) # doc
    /\ handlers # <<>>

\* C12. Cancellation: the monitoring task can be stopped. Once the holder of
\* the store has let go of it, the goroutine that is back at its select
\* statement has left the loop: it begins no further reload cycle, changes
\* the document no more and invokes no handler.
C12_Cancellation ==
    [][(released /\ pc = "select") =>
            /\ pc' = "select"
            /\ UNCHANGED <<doc, invoked, reloads>>]_vars

\* C13. Serialized cycles: an event or an error of the watcher is received
\* only while no reload cycle is in progress, a cycle begins only from the
\* select statement, and the handlers invoked so far are those of one cycle:
\* a prefix of the handler sequence that cycle's range statement evaluated.
C13_SerializedCycles ==
    /\ [](invoked # <<>> =>
            /\ pc \in {"notify", "panic"}
            /\ Len(invoked) = ri - (IF pc = "notify" THEN 1 ELSE 0)
            /\ invoked = SubSeq(rangeH, 1, Len(invoked)))
    /\ [][/\ EventReceived => (pc = "select" /\ pc' \in {"select", "sleep"})
          /\ ErrorReceived => pc = "select"
          /\ (pc' = "sleep" /\ pc # "sleep") => (pc = "select" /\ EventReceived)
          /\ (pc = "notify" /\ pc' # "notify") => (ri > Len(rangeH) \/ pc' = "panic")]_vars

\* A cycle is invoking its handlers, the first one done, while the event of
\* the next write is queued.
C13_Witness ==
    /\ pc = "notify"
    /\ ri = 2
    /\ Len(rangeH) = 2
    /\ events # <<>>
    /\ Head(events) = EventName(PathBase(ConfigPath))
    /\ DecodeFresh(file) # doc

\* C14. Burst handling: the events one write of the watched file produces
\* lead to one debounce wait and one reload attempt, not to one per event.
C14_BurstHandling ==
    (writes = 1 /\ monitoring /\ HoldsKeys(file)) => reloads + (IF pc = "sleep" THEN 1 ELSE 0) <= 1

\* The debounce interval of one second, in ticks.
DebounceTicks == 1000 \div 200

\* C15. Debounce precedes every effect: while the goroutine sleeps after
\* accepting an event the document is the one held at the acceptance and no
\* handler has been invoked; the file is re-read, the document decoded and
\* the handlers invoked only once the sleep has lasted the full second; and
\* when a handler is invoked the decode into the document is complete.
C15_DebouncePrecedesEffects ==
    /\ pc = "sleep" =>
            /\ Marshal(doc) = oldData
            /\ invoked = <<>>
            /\ buf = EmptyMapping
    /\ pc \in {"unmarshal", "compare", "notify", "panic"} => slept >= DebounceTicks
    /\ invoked # <<>> =>
            /\ pc \in {"notify", "panic"}
            /\ doc = Unmarshal(buf, doc)
            /\ Marshal(doc) # oldData

\* A handler has been invoked, after a sleep of one second, with the
\* document changed by the decode.
C15_Witness ==
    /\ pc = "notify"
    /\ ri > 1
    /\ slept = DebounceTicks
    /\ Marshal(doc) # oldData
    /\ doc = DecodeFresh(file)

\* C16. Registration is never lost: the handler sequence holds every handler
\* whose RegisterHandler has returned, one entry each and nothing else,
\* and a registration that has returned keeps its place before those that
\* return later.
C16_RegistrationNeverLost ==
    /\ [](/\ \A h \in returned : Count(h, handlers) = 1
          /\ Len(handlers) = Cardinality(returned))
    /\ [][\A i \in 1..Len(handlers) : i <= Len(handlers') /\ handlers'[i] = handlers[i]]_vars

\* C17. Sole writer and sole invoker: after a successful load the document
\* changes only in a step of the goroutine's decode and the invocations grow
\* only in a step of its range loop; a step of RegisterHandler leaves the
\* document as it is; and without monitoring the document stays the one
\* loaded and no handler is invoked, whatever happens to the file.
C17_SoleWriterSoleInvoker ==
    /\ []((result = "ok" /\ watcher = "none") =>
            /\ doc = lastGood
            /\ invoked = <<>>
            /\ pc = "select")
    /\ [][result = "ok" =>
            /\ doc' # doc => (monitoring /\ pc = "unmarshal")
            /\ invoked' # invoked /\ invoked' # <<>> => (monitoring /\ pc = "notify")
            /\ (handlers' # handlers \/ regpc' # regpc) => doc' = doc /\ invoked' = invoked]_vars

\* Without monitoring: the file has been rewritten with another document and
\* a handler is registered.
C17_Witness ==
    /\ result = "ok"
    /\ watcher = "none"
    /\ writes > 0
    /\ Valid(file)
    /\ DecodeFresh(file) # doc
    /\ handlers # <<>>

\* C18. Handler fault containment: when the invocation of a handler has
\* failed, the host process and the goroutine run on, the loop goes on to
\* the handlers that follow it in the sequence, and the document is the new
\* one.
C18_HandlerFaultContainment ==
    failed # {} =>
        /\ alive
        /\ monitoring
        /\ Marshal(doc) # oldData
        /\ ri <= Len(rangeH) => pc = "notify"

====
